---- MODULE Spec2Model ----
(***************************************************************************)
(* SessionPool of @browsercash/pool (src/src/pool.ts, the build with the   *)
(* idle limit, lines 505-992).  Every handler runs to its next await as    *)
(* one step; a creation in flight and a teardown in flight are records     *)
(* that the collaborators (provisioning service, connection library)       *)
(* settle in later steps.  closeSession() awaits twice, so a teardown in    *)
(* flight is at its browser.close() or at its stop call.                   *)
(***************************************************************************)
EXTENDS Integers, Sequences, FiniteSets, TLC

\* ---------------------------------------------------------------- bounds
MaxSessions == 3
MaxCallers == 3
MaxShutdowns == 2

\* -------------------------------------------------------- configurations
\* The configurations checked, each with the calls and events its environment
\* makes: acquire calls, shutdown calls, clock ticks, faults (a disconnect, a
\* failing creation or a failing teardown call), and whether the browsers
\* that config.chromium connects have an on() method.
Sc(sz, mu, age, idle, wq, hc, dh, nc, ns, nt, nf, on) ==
  [size |-> sz, maxUses |-> mu, maxAgeMs |-> age, maxIdleMs |-> idle,
   enableWaitQueue |-> wq, enableHealthCheck |-> hc, enableDisconnectHandling |-> dh,
   callers |-> nc, shutdowns |-> ns, ticks |-> nt, faults |-> nf, on |-> on]

Scenarios ==
  { Sc(1, 2, 1, 0, TRUE, TRUE, TRUE, 2, 0, 1, 0, TRUE),
    Sc(1, 2, 1, 0, TRUE, TRUE, TRUE, 1, 0, 1, 1, TRUE),
    Sc(1, 2, 1, 0, TRUE, TRUE, TRUE, 1, 1, 1, 0, TRUE),
    Sc(1, 2, 1, 0, TRUE, FALSE, TRUE, 3, 2, 0, 0, TRUE),
    Sc(1, 2, 1, 0, TRUE, FALSE, TRUE, 3, 0, 0, 1, TRUE),
    Sc(1, 2, 1, 0, TRUE, FALSE, TRUE, 2, 1, 0, 1, TRUE),
    Sc(1, 2, 1, 0, TRUE, FALSE, TRUE, 2, 0, 0, 1, FALSE),
    Sc(1, 2, 1, 0, TRUE, FALSE, TRUE, 1, 0, 0, 2, TRUE),
    Sc(2, 1, 0, 1, TRUE, FALSE, TRUE, 2, 0, 0, 1, TRUE),
    Sc(2, 1, 0, 1, TRUE, FALSE, TRUE, 3, 0, 1, 0, TRUE),
    Sc(3, 2, 1, 1, TRUE, FALSE, TRUE, 1, 0, 1, 1, TRUE),
    Sc(3, 2, 1, 1, TRUE, FALSE, TRUE, 2, 0, 1, 0, TRUE),
    Sc(1, 2, 0, 1, FALSE, TRUE, FALSE, 1, 0, 1, 1, TRUE),
    Sc(1, 2, 0, 1, FALSE, TRUE, FALSE, 2, 0, 2, 0, TRUE),
    Sc(1, 2, 0, 1, FALSE, TRUE, FALSE, 1, 1, 1, 0, TRUE),
    Sc(2, 2, 1, 0, TRUE, TRUE, TRUE, 1, 0, 1, 1, TRUE) }

SessionIds == 1..MaxSessions
CallerIds == 1..MaxCallers
ShutdownIds == 1..MaxShutdowns

VARIABLES
  size, maxUses, maxAgeMs, maxIdleMs, enableWaitQueue, enableHealthCheck, enableDisconnectHandling,
  available, inUse, creating, closed, healthCheckTimer, waitQueue,
  now, sessions, nextId, cr, td, callers, initState, immediates, retries,
  sd, faults, env

config == <<size, maxUses, maxAgeMs, maxIdleMs, enableWaitQueue, enableHealthCheck, enableDisconnectHandling, env>>
pool == <<available, inUse, creating, closed, healthCheckTimer, waitQueue>>
vars == <<size, maxUses, maxAgeMs, maxIdleMs, enableWaitQueue, enableHealthCheck, enableDisconnectHandling,
          available, inUse, creating, closed, healthCheckTimer, waitQueue,
          now, sessions, nextId, cr, td, callers, initState, immediates, retries,
          sd, faults, env>>

\* ------------------------------------------------------------- helpers
Range(s) == {s[i] : i \in 1..Len(s)}

\* the members of a set of session ids, in ascending order
RECURSIVE SeqOf(_)
SeqOf(S) ==
  IF S = {} THEN <<>>
  ELSE LET x == CHOOSE x \in S : \A y \in S : x <= y
       IN <<x>> \o SeqOf(S \ {x})

\* fault injection: splice(idx) in place of splice(idx, 1)
Remove_Truncating(s, x) ==
  IF \E i \in 1..Len(s) : s[i] = x
  THEN SubSeq(s, 1, (CHOOSE i \in 1..Len(s) : s[i] = x /\ \A j \in 1..(i - 1) : s[j] # x) - 1)
  ELSE s

\* fault injection: the element is looked up and left in place
Remove_Kept(s, x) == s

\* available.indexOf(x) followed by splice(idx, 1) when idx !== -1
Remove(s, x) ==
  IF \E i \in 1..Len(s) : s[i] = x
  THEN LET idx == CHOOSE i \in 1..Len(s) : s[i] = x /\ \A j \in 1..(i - 1) : s[j] # x
       IN SubSeq(s, 1, idx - 1) \o SubSeq(s, idx + 1, Len(s))
  ELSE s

NoSession ==
  [st |-> "none", provisioned |-> FALSE, connected |-> FALSE, listener |-> FALSE,
   createdAt |-> 0, useCount |-> 0, lastUsedAt |-> 0, closeStarts |-> 0, stops |-> 0,
   closeFailed |-> FALSE, stopFailed |-> FALSE, fault |-> "none"]

\* a caller: where its acquire() or release() stands, the session it was
\* handed, the error its acquire() failed with, the flag its release() passed,
\* whether its acquire() popped unusable sessions off available, and, while it
\* holds a session, whether its acquire() accepted that session from available
\* (hit)
NoCaller ==
  [st |-> "idle", sess |-> 0, err |-> "none", fatal |-> FALSE, popped |-> FALSE,
   hit |-> FALSE]

\* a shutdown() call: where it stands, the waiters it rejected in rejection
\* order, the sessions it closes (allSessions), and the pool as the call left
\* it at its await (left)
NoShutdown == [st |-> "idle", rejected |-> <<>>, allSessions |-> {}, left |-> <<>>]

BG == [k |-> "bg", i |-> 0]

\* fault injection: a totalCount that leaves the sessions in use out
Total_WithoutInUse(av, iu, crt) == Len(av) + crt

\* totalCount taken over explicit values, for use in the middle of a handler
Total(av, iu, crt) == Len(av) + Cardinality(iu) + crt

totalCount == Total(available, inUse, creating)

stats ==
  [available |-> Len(available), inUse |-> Cardinality(inUse), creating |-> creating,
   waiting |-> Len(waitQueue), total |-> totalCount, maxSize |-> size]

\* fault injection: isUsable() without the use-count limit
isUsable_NoUseLimit(s) ==
  /\ s # 0
  /\ sessions[s].connected
  /\ ~(now - sessions[s].createdAt > maxAgeMs)
  /\ ~(now - sessions[s].lastUsedAt > maxIdleMs)

\* fault injection: isUsable() without the idle-time limit
isUsable_NoIdleLimit(s) ==
  /\ s # 0
  /\ sessions[s].connected
  /\ ~(sessions[s].useCount >= maxUses)
  /\ ~(now - sessions[s].createdAt > maxAgeMs)

\* isUsable(): connected, below maxUses, within maxAgeMs and maxIdleMs
isUsable(s) ==
  /\ s # 0
  /\ sessions[s].connected
  /\ ~(sessions[s].useCount >= maxUses)
  /\ ~(now - sessions[s].createdAt > maxAgeMs)
  /\ ~(now - sessions[s].lastUsedAt > maxIdleMs)

\* closeSession(s) up to its first await, for every s of S: one teardown in
\* flight per call, numbered by the count of calls made for that session, and
\* waiting for browser.close()
closeSession(S, owner) ==
  {[sid |-> s, n |-> sessions[s].closeStarts + 1, owner |-> owner, phase |-> "close"] :
     s \in S \ {0}}

Closing(ss, S) ==
  [s \in SessionIds |-> IF s \in S THEN [ss[s] EXCEPT !.closeStarts = @ + 1] ELSE ss[s]]

\* how a call made by closeSession() ends: it succeeds or it fails
CloseOutcomes == {"ok", "err"}

\* browser.close() settled: the connection is gone when it succeeded, and its
\* failure is swallowed
Closed(ss, s, o) ==
  [ss EXCEPT ![s].connected = IF o = "ok" THEN FALSE ELSE @,
             ![s].closeFailed = (@ \/ o = "err")]

\* closeSession() after browser.close(): the stop call is made whatever
\* browser.close() did
StopCalled(t) == [t EXCEPT !.phase = "stop"]

\* fault injection: a closeSession() that gives up when browser.close() fails
Settled_StopSkipped(ss, s, o) ==
  IF ss[s].closeFailed
  THEN ss
  ELSE [ss EXCEPT ![s].connected = IF o = "ok" THEN FALSE ELSE @,
                  ![s].stops = @ + 1,
                  ![s].stopFailed = (@ \/ o = "err")]

\* the stop call of closeSession() settled and closeSession() returns: the
\* remote session, and with it the connection, is gone when the call
\* succeeded; its failure is logged
Settled(ss, s, o) ==
  [ss EXCEPT ![s].connected = IF o = "ok" THEN FALSE ELSE @,
             ![s].stops = @ + 1,
             ![s].stopFailed = (@ \/ o = "err")]

\* a failing outcome is one of the faults the environment may inject
Outcome(o) ==
  /\ o # "ok" => faults < env.faults
  /\ faults' = IF o = "ok" THEN faults ELSE faults + 1

\* createSession() up to its first await
createSession(kind, arg, warm) ==
  [sid |-> nextId, kind |-> kind, arg |-> arg, phase |-> "pending", warm |-> warm]

\* addSession() up to its first await, called with the pool counts av, iu, crt:
\* TRUE when it passes the closed check and the capacity check
addSessionStarts(av, iu, crt) ==
  /\ ~closed
  /\ ~(Total(av, iu, crt + 1) > size)

\* fault injection: a replenish() that never calls addSession()
replenishStarts_Never(av, iu, crt) == FALSE

\* fault injection: a replenish() that goes on to create on a closed pool
replenishStarts_WhenClosed(av, iu, crt) == ~(size - Total(av, iu, crt) <= 0)

\* replenish(): one addSession() call when the deficit is positive
replenishStarts(av, iu, crt) ==
  /\ ~(size - Total(av, iu, crt) <= 0)
  /\ addSessionStarts(av, iu, crt)

\* acquire() after creating++: the on-demand creation is allowed
underCapacity(iu, crt) == Total(<<>>, iu, crt + 1) <= size

\* fault injection: an exit path that leaves the counter as it was
Decrement_Leaked(crt) == crt

\* this.creating-- on an exit path of acquire() or addSession()
Decrement(crt) == crt - 1

\* fault injection: acquire() serving the oldest usable session first
AcceptIndex_Oldest ==
  IF \E i \in 1..Len(available) : isUsable(available[i])
  THEN CHOOSE i \in 1..Len(available) :
         /\ isUsable(available[i])
         /\ \A j \in 1..(i - 1) : ~isUsable(available[j])
  ELSE 0

\* index in available of the session acquire() accepts (0: none)
AcceptIndex ==
  IF \E i \in 1..Len(available) : isUsable(available[i])
  THEN CHOOSE i \in 1..Len(available) :
         /\ isUsable(available[i])
         /\ \A j \in (i + 1)..Len(available) : ~isUsable(available[j])
  ELSE 0

Quiescent == cr = {} /\ td = {}

\* ----------------------------------------------------------------- Init
Init ==
  /\ \E sc \in Scenarios :
       /\ size = sc.size
       /\ maxUses = sc.maxUses
       /\ maxAgeMs = sc.maxAgeMs
       /\ maxIdleMs = sc.maxIdleMs
       /\ enableWaitQueue = sc.enableWaitQueue
       /\ enableHealthCheck = sc.enableHealthCheck
       /\ enableDisconnectHandling = sc.enableDisconnectHandling
       /\ env = [callers |-> sc.callers, shutdowns |-> sc.shutdowns,
                 ticks |-> sc.ticks, faults |-> sc.faults, on |-> sc.on]
  /\ available = <<>>
  /\ inUse = {}
  /\ creating = 0
  /\ closed = FALSE
  /\ healthCheckTimer = FALSE
  /\ waitQueue = <<>>
  /\ now = 0
  /\ sessions = [s \in SessionIds |-> NoSession]
  /\ nextId = 1
  /\ cr = {}
  /\ td = {}
  /\ callers = [c \in CallerIds |-> NoCaller]
  /\ initState = "new"
  /\ immediates = 0
  /\ retries = 0
  /\ sd = [k \in ShutdownIds |-> NoShutdown]
  /\ faults = 0

\* ------------------------------------------------- bookkeeping helpers
\* fault injection: a release that leaves lastUsedAt as it was
Touched_Stale(ss, s) == [ss EXCEPT ![s].lastUsedAt = @]

\* session.lastUsedAt = Date.now()
Touched(ss, s) == [ss EXCEPT ![s].lastUsedAt = now]

\* fault injection: a hand-over that leaves useCount as it was
Used_Uncounted(ss, s) == [ss EXCEPT ![s].useCount = @]

\* session.useCount++
Used(ss, s) == [ss EXCEPT ![s].useCount = @ + 1]

Live(ss, s) ==
  [ss EXCEPT ![s] = [@ EXCEPT !.st = "live", !.provisioned = TRUE, !.connected = TRUE,
                              !.createdAt = now,
                              !.useCount = 0, !.lastUsedAt = now]]

Holding(cs, c, s) == [cs EXCEPT ![c] = [@ EXCEPT !.st = "holding", !.sess = s]]

\* fault injection: the caller's acquire fails without the error it was given
Failed_ErrorLost(cs, c, e) == [cs EXCEPT ![c] = [@ EXCEPT !.st = "failed", !.err = "none"]]

Failed(cs, c, e) == [cs EXCEPT ![c] = [@ EXCEPT !.st = "failed", !.err = e]]

\* what the collaborators can do to a createSession() call: the provisioning
\* call fails; it returns a session without a cdpUrl; connectOverCDP() fails,
\* and the stop call that follows succeeds or fails too; newContext() or
\* newPage() fails on the connected browser
CreateFaults == {"ProvErr", "NoUrl", "ConnErr", "ConnErrStopErr", "CtxErr"}

\* fault injection: a createSession() that lets the error of its stop call out
Rethrown_StopError(f) == IF f = "ConnErrStopErr" THEN "StopErr" ELSE f

\* the error createSession() throws under the fault f: the catch around the
\* stop call is empty, and the connection error is rethrown
Rethrown(f) == IF f = "ConnErrStopErr" THEN "ConnErr" ELSE f

\* the errors createSession() throws
CreateErrors == {"ProvErr", "NoUrl", "ConnErr", "CtxErr"}

\* the remote session of a createSession() call that threw under the fault f
\* (kept in the session's record):
\* a connect failure is followed by the stop call; a missing cdpUrl and a
\* newContext() or newPage() failure are thrown with no stop call
Thrown(ss, s, f) ==
  IF f \in {"ConnErr", "ConnErrStopErr"}
  THEN [ss EXCEPT ![s] = [@ EXCEPT !.st = "failed", !.fault = f, !.provisioned = TRUE,
                                   !.stops = @ + 1,
                                   !.stopFailed = (f = "ConnErrStopErr")]]
  ELSE IF f = "CtxErr"
  THEN [ss EXCEPT ![s] = [@ EXCEPT !.st = "failed", !.fault = f, !.provisioned = TRUE,
                                   !.connected = TRUE]]
  ELSE IF f = "NoUrl"
  THEN [ss EXCEPT ![s] = [@ EXCEPT !.st = "failed", !.fault = f, !.provisioned = TRUE]]
  ELSE [ss EXCEPT ![s] = [@ EXCEPT !.st = "failed", !.fault = f]]

\* fault injection: the waiter entered at the head of the queue
Park_AtHead(q, c) == <<c>> \o q

\* waitQueue.push({ resolve, reject })
Park(q, c) == Append(q, c)

\* the tail of acquire(): park the caller, or throw when the queue is disabled
WaitOrThrow(c, cs) ==
  IF enableWaitQueue
  THEN /\ waitQueue' = Park(waitQueue, c)
       /\ callers' = [cs EXCEPT ![c] = [@ EXCEPT !.st = "parked"]]
  ELSE /\ waitQueue' = waitQueue
       /\ callers' = Failed(cs, c, "Exhausted")

\* a background addSession() call made at the end of a handler that leaves the
\* counter at crt and the creations in flight at crBase
BgAdd(starts, crt, crBase) ==
  IF starts
  THEN /\ nextId <= MaxSessions
       /\ creating' = crt + 1
       /\ cr' = crBase \cup {createSession("add", 0, FALSE)}
       /\ nextId' = nextId + 1
  ELSE /\ creating' = crt
       /\ cr' = crBase
       /\ nextId' = nextId

\* -------------------------------------------------------------- acquire
Acquire(c) ==
  /\ c <= env.callers
  /\ callers[c].st = "idle"
  /\ IF c = 1 THEN TRUE ELSE callers[c - 1].st # "idle"
  /\ LET i == AcceptIndex
         popped == {available[j] : j \in (i + 1)..Len(available)}
         cs == [callers EXCEPT ![c].popped = popped # {}, ![c].hit = i > 0]
     IN /\ td' = td \cup closeSession(popped, BG)
        /\ IF i > 0
           THEN /\ available' = SubSeq(available, 1, i - 1)
                /\ inUse' = inUse \cup {available[i]}
                /\ sessions' = Closing(Used(sessions, available[i]), popped)
                /\ callers' = Holding(cs, c, available[i])
                /\ UNCHANGED <<creating, cr, nextId, waitQueue>>
           ELSE /\ available' = <<>>
                /\ sessions' = Closing(sessions, popped)
                /\ inUse' = inUse
                /\ IF underCapacity(inUse, creating)
                   THEN /\ nextId <= MaxSessions
                        /\ creating' = creating + 1
                        /\ cr' = cr \cup {createSession("acquire", c, FALSE)}
                        /\ nextId' = nextId + 1
                        /\ callers' = [cs EXCEPT ![c] = [@ EXCEPT !.st = "creating"]]
                        /\ waitQueue' = waitQueue
                   ELSE /\ WaitOrThrow(c, cs)
                        /\ UNCHANGED <<creating, cr, nextId>>
  /\ UNCHANGED <<config, closed, healthCheckTimer, now, initState, immediates, retries,
                 sd, faults>>

\* the on-demand createSession() of acquire() returned
AcquireCreated(t) ==
  /\ t \in cr /\ t.kind = "acquire" /\ t.phase = "pending"
  /\ cr' = cr \ {t}
  /\ creating' = Decrement(creating)
  /\ IF totalCount > size
     THEN /\ td' = td \cup closeSession({t.sid}, [k |-> "acq", i |-> t.arg])
          /\ sessions' = Closing(Live(sessions, t.sid), {t.sid})
          /\ callers' = [callers EXCEPT ![t.arg] = [@ EXCEPT !.st = "closing"]]
          /\ inUse' = inUse
     ELSE /\ td' = td
          /\ inUse' = inUse \cup {t.sid}
          /\ sessions' = Used(Live(sessions, t.sid), t.sid)
          /\ callers' = Holding(callers, t.arg, t.sid)
  /\ UNCHANGED <<config, available, closed, healthCheckTimer, waitQueue, now, nextId,
                 initState, immediates, retries, sd, faults>>

\* the closeSession() awaited by acquire() for an over-capacity session
\* returned: the caller falls through to the wait queue
AcquireClosed(t, o) ==
  /\ Outcome(o)
  /\ t \in td /\ t.owner.k = "acq" /\ t.phase = "stop"
  /\ td' = td \ {t}
  /\ sessions' = Settled(sessions, t.sid, o)
  /\ WaitOrThrow(t.owner.i, callers)
  /\ UNCHANGED <<config, available, inUse, creating, closed, healthCheckTimer, now,
                 nextId, cr, initState, immediates, retries, sd>>

\* the on-demand createSession() of acquire() threw
AcquireFailed(t, e) ==
  /\ faults < env.faults
  /\ faults' = faults + 1
  /\ t \in cr /\ t.kind = "acquire" /\ t.phase = "pending"
  /\ cr' = cr \ {t}
  /\ creating' = Decrement(creating)
  /\ callers' = Failed(callers, t.arg, Rethrown(e))
  /\ sessions' = Thrown(sessions, t.sid, e)
  /\ UNCHANGED <<config, available, inUse, closed, healthCheckTimer, waitQueue, now,
                 nextId, td, initState, immediates, retries, sd>>

\* -------------------------------------------------------------- release
Release(c, error) ==
  /\ callers[c].st = "holding"
  /\ LET s == callers[c].sess
         iu == inUse \ {s}
         cs == [callers EXCEPT ![c] = [@ EXCEPT !.st = "released", !.fatal = error, !.hit = FALSE]]
     IN IF error \/ ~isUsable(s)
        THEN /\ inUse' = iu
             /\ td' = td \cup closeSession({s}, BG)
             /\ sessions' = Closing(sessions, {s})
             /\ BgAdd(replenishStarts(available, iu, creating), creating, cr)
             /\ callers' = cs
             /\ UNCHANGED <<available, waitQueue>>
        ELSE /\ IF enableWaitQueue /\ Len(waitQueue) > 0
                THEN /\ waitQueue' = Tail(waitQueue)
                     /\ inUse' = iu \cup {s}
                     /\ sessions' = Used(Touched(sessions, s), s)
                     /\ callers' = Holding(cs, Head(waitQueue), s)
                     /\ available' = available
                ELSE /\ available' = Append(available, s)
                     /\ inUse' = iu
                     /\ sessions' = Touched(sessions, s)
                     /\ callers' = cs
                     /\ waitQueue' = waitQueue
             /\ UNCHANGED <<creating, cr, nextId, td>>
  /\ UNCHANGED <<config, closed, healthCheckTimer, now, initState, immediates, retries,
                 sd, faults>>

\* --------------------------------------------------- closeSession steps
\* the browser.close() awaited by a closeSession() settled: closeSession()
\* goes on to its stop call
BrowserClosed(t, o) ==
  /\ Outcome(o)
  /\ t \in td /\ t.phase = "close"
  /\ td' = (td \ {t}) \cup {StopCalled(t)}
  /\ sessions' = Closed(sessions, t.sid, o)
  /\ UNCHANGED <<config, pool, now, nextId, cr, callers, initState, immediates, retries,
                 sd>>

\* a closeSession() nobody awaits ran to its end
CloseSettled(t, o) ==
  /\ Outcome(o)
  /\ t \in td /\ t.owner.k = "bg" /\ t.phase = "stop"
  /\ td' = td \ {t}
  /\ sessions' = Settled(sessions, t.sid, o)
  /\ UNCHANGED <<config, pool, now, nextId, cr, callers, initState, immediates, retries,
                 sd>>

\* Date.now() advances
Tick ==
  /\ now < env.ticks
  /\ now' = now + 1
  /\ UNCHANGED <<config, pool, sessions, nextId, cr, td, callers, initState, immediates,
                 retries, sd, faults>>

\* ----------------------------------------------------------- addSession
\* session.browser.on("disconnected", ...) when handling is enabled and the
\* browser has an on() method
Attach(ss, s) == [ss EXCEPT ![s].listener = (enableDisconnectHandling /\ env.on)]

\* the createSession() of addSession() returned
AddCreated(t) ==
  /\ t \in cr /\ t.kind = "add" /\ t.phase = "pending"
  /\ LET ss == Attach(Live(sessions, t.sid), t.sid)
     IN IF closed \/ totalCount > size
        THEN /\ td' = td \cup closeSession({t.sid}, [k |-> "add", i |-> t.sid])
             /\ sessions' = Closing(ss, {t.sid})
             /\ cr' = (cr \ {t}) \cup {[t EXCEPT !.phase = "closing"]}
             /\ UNCHANGED <<available, inUse, creating, waitQueue, callers, immediates>>
        ELSE /\ IF enableWaitQueue /\ Len(waitQueue) > 0
                THEN /\ waitQueue' = Tail(waitQueue)
                     /\ inUse' = inUse \cup {t.sid}
                     /\ sessions' = Used(ss, t.sid)
                     /\ callers' = Holding(callers, Head(waitQueue), t.sid)
                     /\ available' = available
                ELSE /\ available' = Append(available, t.sid)
                     /\ sessions' = ss
                     /\ UNCHANGED <<inUse, waitQueue, callers>>
             /\ immediates' = IF Total(available', inUse', creating) < size /\ ~closed
                              THEN immediates + 1 ELSE immediates
             /\ creating' = Decrement(creating)
             /\ cr' = cr \ {t}
             /\ td' = td
  /\ UNCHANGED <<config, closed, healthCheckTimer, now, nextId, initState, retries, sd, faults>>

\* the closeSession() awaited by addSession() returned: the finally block runs
AddClosed(t, o) ==
  /\ Outcome(o)
  /\ t \in td /\ t.owner.k = "add" /\ t.phase = "stop"
  /\ td' = td \ {t}
  /\ sessions' = Settled(sessions, t.sid, o)
  /\ cr' = {x \in cr : x.sid # t.sid}
  /\ creating' = Decrement(creating)
  /\ UNCHANGED <<config, available, inUse, closed, healthCheckTimer, waitQueue, now,
                 nextId, callers, initState, immediates, retries, sd>>

\* the createSession() of addSession() threw
AddFailed(t, e) ==
  /\ faults < env.faults
  /\ faults' = faults + 1
  /\ t \in cr /\ t.kind = "add" /\ t.phase = "pending"
  /\ IF enableWaitQueue /\ Len(waitQueue) > 0
     THEN /\ waitQueue' = Tail(waitQueue)
          /\ callers' = Failed(callers, Head(waitQueue), Rethrown(e))
     ELSE UNCHANGED <<waitQueue, callers>>
  /\ retries' = IF ~closed /\ totalCount < size THEN retries + 1 ELSE retries
  /\ creating' = Decrement(creating)
  /\ cr' = cr \ {t}
  /\ sessions' = Thrown(sessions, t.sid, e)
  /\ UNCHANGED <<config, available, inUse, closed, healthCheckTimer, now,
                 nextId, td, initState, immediates, sd>>

\* setImmediate(() => this.addSession()) runs
ImmediateFire ==
  /\ immediates > 0
  /\ immediates' = immediates - 1
  /\ BgAdd(addSessionStarts(available, inUse, creating), creating, cr)
  /\ UNCHANGED <<config, available, inUse, closed, healthCheckTimer, waitQueue, now,
                 sessions, td, callers, initState, retries, sd, faults>>

\* setTimeout(() => this.addSession(), 5000) runs
RetryFire ==
  /\ retries > 0
  /\ retries' = retries - 1
  /\ BgAdd(addSessionStarts(available, inUse, creating), creating, cr)
  /\ UNCHANGED <<config, available, inUse, closed, healthCheckTimer, waitQueue, now,
                 sessions, td, callers, initState, immediates, sd, faults>>

\* ----------------------------------------------------------------- init
\* the number of the size addSession() calls of init() that start a creation
WarmupStarts ==
  IF closed \/ size - totalCount <= 0 THEN 0
  ELSE IF size - totalCount < size THEN size - totalCount ELSE size

\* init() is called before anything else, or not at all
InitPool ==
  /\ initState = "new"
  /\ nextId = 1 /\ ~closed /\ callers[1].st = "idle"
  /\ LET n == WarmupStarts
     IN /\ nextId + n - 1 <= MaxSessions
        /\ creating' = creating + n
        /\ cr' = cr \cup {[sid |-> nextId + k - 1, kind |-> "add", arg |-> 0,
                           phase |-> "pending", warm |-> TRUE] : k \in 1..n}
        /\ nextId' = nextId + n
  /\ initState' = "warming"
  /\ UNCHANGED <<config, available, inUse, closed, healthCheckTimer, waitQueue, now,
                 sessions, td, callers, immediates, retries, sd, faults>>

\* fault injection: init() going on after Promise.race alone
warmupSettled_First == Cardinality({t \in cr : t.warm}) < size

\* await Promise.race(warmupPromises); await Promise.allSettled(warmupPromises):
\* every addSession() call of init() has run to its end
warmupSettled == ~\E t \in cr : t.warm

\* Promise.race and Promise.allSettled over the warm-up calls have resolved
InitReturn ==
  /\ initState = "warming"
  /\ warmupSettled
  /\ initState' = "done"
  /\ healthCheckTimer' = (healthCheckTimer \/ enableHealthCheck)
  /\ UNCHANGED <<config, available, inUse, creating, closed, waitQueue, now, sessions,
                 nextId, cr, td, callers, immediates, retries, sd, faults>>

\* --------------------------------------------------------- health check
\* fault injection: a sweep that also collects the unusable sessions of inUse
toReplace_InUseToo ==
  SelectSeq(available, LAMBDA s : ~isUsable(s)) \o SeqOf({s \in inUse : ~isUsable(s)})

\* the sessions of available a sweep collects for replacement
toReplace == SelectSeq(available, LAMBDA s : ~isUsable(s))

\* the interval callback: performHealthCheck() unless closed
HealthTick ==
  /\ healthCheckTimer
  /\ ~closed
  /\ LET n == Len(toReplace)
         crR == cr \cup {[sid |-> nextId + k - 1, kind |-> "replace", arg |-> toReplace[k],
                          phase |-> "pending", warm |-> FALSE] : k \in 1..n}
     IN /\ nextId + n - 1 <= MaxSessions
        /\ IF replenishStarts(available, inUse, creating)
           THEN /\ nextId + n <= MaxSessions
                /\ creating' = creating + 1
                /\ cr' = crR \cup {[sid |-> nextId + n, kind |-> "add", arg |-> 0,
                                    phase |-> "pending", warm |-> FALSE]}
                /\ nextId' = nextId + n + 1
           ELSE /\ creating' = creating
                /\ cr' = crR
                /\ nextId' = nextId + n
  /\ UNCHANGED <<config, available, inUse, closed, healthCheckTimer, waitQueue, now,
                 sessions, td, callers, initState, immediates, retries, sd, faults>>

\* the createSession() of replaceSession() returned
ReplaceCreated(t) ==
  /\ t \in cr /\ t.kind = "replace" /\ t.phase = "pending"
  /\ cr' = cr \ {t}
  /\ available' = Append(Remove(available, t.arg), t.sid)
  /\ td' = td \cup closeSession({t.arg}, BG)
  /\ sessions' = Closing(Attach(Live(sessions, t.sid), t.sid), {t.arg})
  /\ UNCHANGED <<config, inUse, creating, closed, healthCheckTimer, waitQueue, now,
                 nextId, callers, initState, immediates, retries, sd, faults>>

\* the createSession() of replaceSession() threw
ReplaceFailed(t, e) ==
  /\ faults < env.faults
  /\ faults' = faults + 1
  /\ t \in cr /\ t.kind = "replace" /\ t.phase = "pending"
  /\ cr' = cr \ {t}
  /\ IF t.arg \in Range(available)
     THEN /\ available' = Remove(available, t.arg)
          /\ td' = td \cup closeSession({t.arg}, BG)
          /\ sessions' = Closing(Thrown(sessions, t.sid, e), {t.arg})
     ELSE /\ sessions' = Thrown(sessions, t.sid, e)
          /\ UNCHANGED <<available, td>>
  /\ UNCHANGED <<config, inUse, creating, closed, healthCheckTimer, waitQueue, now,
                 nextId, callers, initState, immediates, retries, sd>>

\* ----------------------------------------------------------- disconnect
\* the connection of a live session is lost; the "disconnected" listener,
\* when one is attached, runs
Disconnect(s) ==
  /\ faults < env.faults
  /\ faults' = faults + 1
  /\ sessions[s].st = "live"
  /\ sessions[s].connected
  /\ IF sessions[s].listener
     THEN /\ available' = Remove(available, s)
          /\ inUse' = inUse \ {s}
          /\ td' = td \cup closeSession({s}, BG)
          /\ sessions' = Closing([sessions EXCEPT ![s].connected = FALSE], {s})
          /\ BgAdd(replenishStarts(available', inUse', creating), creating, cr)
     ELSE /\ sessions' = [sessions EXCEPT ![s].connected = FALSE]
          /\ UNCHANGED <<available, inUse, td, creating, cr, nextId>>
  /\ UNCHANGED <<config, closed, healthCheckTimer, waitQueue, now, callers, initState,
                 immediates, retries, sd>>

\* ------------------------------------------------------------- shutdown
\* fault injection: shutdown() rejecting the head waiter alone
RejectAll_HeadOnly(q) == IF Len(q) > 0 THEN <<Head(q)>> ELSE <<>>

\* fault injection: shutdown() leaving the in-use set as it is
clear_Skipped(iu) == iu

\* inUse.clear()
clear(iu) == {}

\* the waiters shutdown() shifts off the queue and rejects, in that order
RECURSIVE RejectAll(_)
RejectAll(q) == IF Len(q) > 0 THEN <<Head(q)>> \o RejectAll(Tail(q)) ELSE <<>>

\* shutdown() up to its await; Promise.all over no session resolves at once
Shutdown(k) ==
  /\ k <= env.shutdowns
  /\ sd[k].st = "idle"
  /\ IF k = 1 THEN TRUE ELSE sd[k - 1].st # "idle"
  /\ closed' = TRUE
  /\ healthCheckTimer' = FALSE
  /\ available' = <<>>
  /\ inUse' = clear(inUse)
  /\ LET rejected == RejectAll(waitQueue)
         allSessions == Range(available) \cup inUse
     IN /\ waitQueue' = SubSeq(waitQueue, Len(rejected) + 1, Len(waitQueue))
        /\ callers' = [c \in CallerIds |->
                         IF c \in Range(rejected)
                         THEN [callers[c] EXCEPT !.st = "failed", !.err = "ShuttingDown"]
                         ELSE callers[c]]
        /\ td' = td \cup closeSession(allSessions, [k |-> "sd", i |-> k])
        /\ sessions' = Closing(sessions, allSessions)
        /\ sd' = [sd EXCEPT ![k] = [st |-> IF allSessions = {} THEN "returned" ELSE "awaiting",
                                    rejected |-> rejected, allSessions |-> allSessions,
                                    left |-> <<available', inUse', waitQueue', closed',
                                               healthCheckTimer'>>]]
  /\ UNCHANGED <<config, creating, now, nextId, cr, initState, immediates, retries, faults>>

\* a closeSession() of shutdown() ran to its end; with the last one Promise.all
\* resolves and shutdown() returns
ShutdownClosed(t, o) ==
  /\ Outcome(o)
  /\ t \in td /\ t.owner.k = "sd" /\ t.phase = "stop"
  /\ td' = td \ {t}
  /\ sessions' = Settled(sessions, t.sid, o)
  /\ sd' = IF \E x \in td' : x.owner = t.owner THEN sd
           ELSE [sd EXCEPT ![t.owner.i].st = "returned"]
  /\ UNCHANGED <<config, pool, now, nextId, cr, callers, initState, immediates, retries>>

\* ----------------------------------------------------------------- Next
Next ==
  \/ \E c \in CallerIds : Acquire(c)
  \/ \E t \in cr : AcquireCreated(t)
  \/ \E t \in td, o \in CloseOutcomes : AcquireClosed(t, o)
  \/ \E t \in cr, e \in CreateFaults : AcquireFailed(t, e)
  \/ \E c \in CallerIds, error \in BOOLEAN : Release(c, error)
  \/ \E t \in td, o \in CloseOutcomes : BrowserClosed(t, o)
  \/ \E t \in td, o \in CloseOutcomes : CloseSettled(t, o)
  \/ Tick
  \/ \E t \in cr : AddCreated(t)
  \/ \E t \in td, o \in CloseOutcomes : AddClosed(t, o)
  \/ \E t \in cr, e \in CreateFaults : AddFailed(t, e)
  \/ ImmediateFire
  \/ RetryFire
  \/ InitPool
  \/ InitReturn
  \/ HealthTick
  \/ \E t \in cr : ReplaceCreated(t)
  \/ \E t \in cr, e \in CreateFaults : ReplaceFailed(t, e)
  \/ \E s \in SessionIds : Disconnect(s)
  \/ \E k \in ShutdownIds : Shutdown(k)
  \/ \E t \in td, o \in CloseOutcomes : ShutdownClosed(t, o)

Spec == Init /\ [][Next]_vars

\* ================================================================ claims
\* caller c is handed a session in this step
HandedOver(c) == callers[c].st # "holding" /\ callers'[c].st = "holding"

\* caller c calls acquire() in this step
Calls(c) == callers[c].st = "idle" /\ callers'[c].st # "idle"

\* C1: with the health monitor off and the pool open, at every state with no
\* creation and no teardown in flight, available + inUse + creating <= size.
C1_QuiescentCapacity ==
  (~enableHealthCheck /\ ~closed /\ Quiescent)
  => Len(available) + Cardinality(inUse) + creating <= size

C1_Witness ==
  /\ ~enableHealthCheck /\ ~closed /\ Quiescent
  /\ Len(available) + Cardinality(inUse) + creating = size
  /\ \E c \in CallerIds : callers[c].st = "released"
  /\ \E c \in CallerIds : callers[c].st = "holding" /\ callers[c].sess \in inUse

\* C2: a session handed to a caller (from available, on demand, by release to
\* a waiter, by a background creation to a waiter) is connected, has not
\* reached maxUses before the increment, and is within the age and idle limits
\* as they stood before the hand-over.
C2_UsableAtHandOver ==
  [][\A c \in CallerIds : HandedOver(c) =>
       LET s == callers'[c].sess
           lastUsedAt == IF sessions[s].st = "live" THEN sessions[s].lastUsedAt
                         ELSE sessions'[s].lastUsedAt
       IN /\ sessions'[s].connected
          /\ sessions'[s].useCount - 1 < maxUses
          /\ now - sessions'[s].createdAt <= maxAgeMs
          /\ now - lastUsedAt <= maxIdleMs]_vars

C2_Witness ==
  \E c \in CallerIds :
    /\ callers[c].st = "holding"
    /\ sessions[callers[c].sess].useCount = 2
    /\ now > 0

\* b stands before a in the queue q
Before(q, b, a) == \E i, j \in 1..Len(q) : i < j /\ q[i] = b /\ q[j] = a

\* C3: while the pool is open and a caller stays parked, a session is handed
\* only to a caller parked ahead of it (or to one whose own on-demand creation
\* was already running): no caller that arrives later takes a session first.
C3_StrictFifo ==
  [][\A a, b \in CallerIds :
       (~closed /\ a # b /\ callers[a].st = "parked" /\ callers'[a].st = "parked" /\ HandedOver(b))
       => \/ callers[b].st = "creating"
          \/ callers[b].st = "parked" /\ Before(waitQueue, b, a)]_vars

\* C4: an acquire() that finds no usable session with capacity committed and
\* the queue enabled appends the caller at the tail of the wait queue, once; a
\* parked caller leaves the queue only with a session, a creation error or the
\* shutting-down error.
C4_ParkedUntilResolved ==
  [][\A c \in CallerIds :
       /\ (Calls(c) /\ enableWaitQueue /\ AcceptIndex = 0 /\ ~underCapacity(inUse, creating))
          => (waitQueue' = Append(waitQueue, c) /\ callers'[c].st = "parked")
       /\ (callers[c].st = "closing" /\ callers'[c].st # "closing" /\ enableWaitQueue)
          => (waitQueue' = Append(waitQueue, c) /\ callers'[c].st = "parked")
       /\ (callers'[c].st = "parked")
          => Cardinality({i \in 1..Len(waitQueue') : waitQueue'[i] = c}) = 1
       /\ (callers[c].st = "parked" /\ callers'[c].st # "parked")
          => /\ c \notin Range(waitQueue')
             /\ \/ callers'[c].st = "holding"
                \/ /\ callers'[c].st = "failed"
                   /\ callers'[c].err \in CreateErrors \cup {"ShuttingDown"}]_vars

C4_Witness ==
  /\ Len(waitQueue) = 2
  /\ \A i \in 1..2 : callers[waitQueue[i]].st = "parked"

\* C5: with the wait queue disabled, an acquire() that finds no usable session
\* with capacity committed fails at once with the exhausted error and leaves
\* available, inUse, creating and the wait queue as they were.
C5_ExhaustedLeavesPool ==
  [][\A c \in CallerIds :
       (Calls(c) /\ ~enableWaitQueue /\ AcceptIndex = 0 /\ ~underCapacity(inUse, creating))
       => /\ callers'[c].st = "failed" /\ callers'[c].err = "Exhausted"
          /\ available' = available /\ inUse' = inUse
          /\ creating' = creating /\ waitQueue' = waitQueue]_vars

\* shutdown() number k is called in this step
ShutdownCalled(k) == sd[k].st = "idle" /\ sd'[k].st # "idle"

\* C6: shutdown() rejects every parked caller with the shutting-down error, in
\* queue order, and leaves the wait queue empty.
C6_ShutdownRejectsWaiters ==
  [][\A k \in ShutdownIds : ShutdownCalled(k) =>
       /\ sd'[k].rejected = waitQueue
       /\ waitQueue' = <<>>
       /\ \A c \in Range(waitQueue) :
            callers'[c].st = "failed" /\ callers'[c].err = "ShuttingDown"]_vars

C6_Witness ==
  \E k \in ShutdownIds :
    /\ Len(sd[k].rejected) = 2
    /\ \A i \in 1..2 : callers[sd[k].rejected[i]].err = "ShuttingDown"

\* C7: an acquire() called once the pool is closed fails with the
\* shutting-down error.
C7_AcquireAfterShutdownFails ==
  [][\A c \in CallerIds : (Calls(c) /\ closed) =>
       (callers'[c].st = "failed" /\ callers'[c].err = "ShuttingDown")]_vars

\* C8: once closed, no creation is started, and a session whose creation
\* completes is closed instead of entering available or inUse.
C8_NothingCreatedOnceClosed ==
  [][closed =>
       /\ nextId' = nextId
       /\ \A s \in SessionIds :
            (sessions[s].st # "live" /\ sessions'[s].st = "live")
            => (s \notin Range(available') \cup inUse' /\ sessions'[s].closeStarts = 1)]_vars

\* C9: a second shutdown(), called while or after the first runs with the pool
\* as the first call left it, returns without an error, closes no session the
\* first call closed and leaves the pool state as it was.
C9_ShutdownIdempotent ==
  [][(/\ sd[1].st # "idle"
      /\ <<available, inUse, waitQueue, closed, healthCheckTimer>> = sd[1].left
      /\ ShutdownCalled(2)) =>
       /\ sd'[2].st = "returned"
       /\ \A s \in sd[1].allSessions : sessions'[s].closeStarts = sessions[s].closeStarts
       /\ td' = td
       /\ UNCHANGED pool]_vars

C9_Witness ==
  /\ sd[1].allSessions # {}
  /\ sd[1].st = "awaiting"
  /\ sd[2].st = "returned" /\ sd[2].allSessions = {}
  /\ \A s \in sd[1].allSessions : sessions[s].closeStarts = 1

\* C10: when shutdown() returns, the teardown of every session it found in
\* available or inUse has finished, available and inUse are empty and the
\* health-check timer is cleared.
C10_ShutdownReturnsClean ==
  [][\A k \in ShutdownIds : (sd[k].st # "returned" /\ sd'[k].st = "returned") =>
       /\ \A s \in sd'[k].allSessions :
            /\ sessions'[s].stops >= 1 /\ ~sessions'[s].connected
            /\ ~\E t \in td' : t.sid = s /\ t.owner = [k |-> "sd", i |-> k]
       /\ available' = <<>> /\ inUse' = {}
       /\ ~healthCheckTimer']_vars

\* C11: no session is in available and in inUse at once, none appears twice in
\* available, and a session whose teardown has started is in neither.
C11_OnePlace ==
  /\ Range(available) \cap inUse = {}
  /\ \A i, j \in 1..Len(available) : available[i] = available[j] => i = j
  /\ \A s \in Range(available) \cup inUse : sessions[s].closeStarts = 0

\* C12: in every step a session's useCount goes up by one when the session is
\* handed to a caller in that step, and stays as it is otherwise.
C12_UseCountPerHandOver ==
  [][\A s \in SessionIds :
       sessions'[s].useCount =
         sessions[s].useCount
         + (IF \E c \in CallerIds : HandedOver(c) /\ callers'[c].sess = s THEN 1 ELSE 0)]_vars

C12_Witness ==
  \E s \in SessionIds :
    /\ sessions[s].useCount = 2
    /\ sessions[s].closeStarts = 1
    /\ \E c1, c2 \in CallerIds :
         /\ c1 # c2
         /\ callers[c1].st = "released" /\ callers[c1].sess = s
         /\ callers[c2].st = "released" /\ callers[c2].sess = s

\* C13: closeSession() is started at most once for each session.
C13_TeardownOnce ==
  \A s \in SessionIds : sessions[s].closeStarts <= 1

\* caller c calls release() on the session it holds in this step
Releases(c) == callers[c].st = "holding" /\ callers'[c].st = "released"

\* C14: a release with the fatal flag set, or of a session that isUsable()
\* rejects, takes the session out of inUse, starts its teardown, neither pushes
\* it onto available nor hands it to a waiter, and calls replenish(): a
\* creation is started exactly when the pool is open and below size.
C14_ReleaseUnusable ==
  [][\A c \in CallerIds :
       LET s == callers[c].sess
           iu == inUse \ {s}
       IN (Releases(c) /\ (callers'[c].fatal \/ ~isUsable(s)))
          => /\ inUse' = iu
             /\ available' = available
             /\ waitQueue' = waitQueue
             /\ \A d \in CallerIds : ~HandedOver(d)
             /\ sessions'[s].closeStarts = sessions[s].closeStarts + 1
             /\ \E t \in td' \ td : t.sid = s
             /\ IF ~closed /\ Len(available) + Cardinality(iu) + creating < size
                THEN /\ creating' = creating + 1
                     /\ \E t \in cr' \ cr : t.kind = "add" /\ t.phase = "pending"
                ELSE creating' = creating /\ cr' = cr]_vars

C14_Witness ==
  /\ size = 2 /\ maxUses = 1
  /\ available = <<>>
  /\ \E t \in cr : t.kind = "add"
  /\ \E c \in CallerIds :
       /\ callers[c].st = "released" /\ ~callers[c].fatal
       /\ sessions[callers[c].sess].useCount = 1
       /\ sessions[callers[c].sess].closeStarts = 1
       /\ callers[c].sess \notin inUse

\* C15: a release without the fatal flag of a session that isUsable() accepts
\* sets lastUsedAt to the current time and either hands the session to the
\* head waiter (waiter off the queue, session in inUse, useCount up by one) or,
\* with no waiter, pushes it on top of available; nothing else moves, and no
\* creation or teardown is started.
C15_ReleaseUsable ==
  [][\A c \in CallerIds :
       LET s == callers[c].sess
       IN (Releases(c) /\ ~callers'[c].fatal /\ isUsable(s))
          => /\ sessions'[s].lastUsedAt = now
             /\ IF Len(waitQueue) > 0
                THEN /\ waitQueue' = Tail(waitQueue)
                     /\ callers'[Head(waitQueue)].st = "holding"
                     /\ callers'[Head(waitQueue)].sess = s
                     /\ inUse' = (inUse \ {s}) \cup {s}
                     /\ sessions'[s].useCount = sessions[s].useCount + 1
                     /\ available' = available
                ELSE /\ available' = Append(available, s)
                     /\ inUse' = inUse \ {s}
                     /\ sessions'[s].useCount = sessions[s].useCount
                     /\ waitQueue' = waitQueue
                     /\ \A d \in CallerIds : ~HandedOver(d)
             /\ UNCHANGED <<creating, cr, td>>]_vars

C15_Witness ==
  \E c1, c2 \in CallerIds :
    /\ callers[c1].st = "released" /\ ~callers[c1].fatal
    /\ callers[c2].st = "released" /\ ~callers[c2].fatal
    /\ callers[c1].sess # callers[c2].sess
    /\ sessions[callers[c1].sess].useCount = 1
    /\ sessions[callers[c1].sess].lastUsedAt = 1
    /\ sessions[callers[c1].sess].createdAt = 0
    /\ available = <<callers[c2].sess, callers[c1].sess>>

\* the on-demand creation of caller c's acquire() fails in this step
OnDemandFails(c) == callers[c].st = "creating" /\ callers'[c].st = "failed"

\* caller c's acquire() starts an on-demand creation in this step
OnDemandStarts(c) == Calls(c) /\ callers'[c].st = "creating"

\* the failure step of C16: the creation error reaches the caller, who is not
\* parked; creating goes down by the one the call added; available, inUse and
\* the wait queue stay as they are
OnDemandFailureFrame(c) ==
  /\ OnDemandStarts(c) => (creating' = creating + 1 /\ UNCHANGED <<inUse, waitQueue>>)
  /\ OnDemandFails(c)
     => /\ callers'[c].err \in CreateErrors
        /\ c \notin Range(waitQueue')
        /\ creating' = creating - 1
        /\ UNCHANGED <<available, inUse, waitQueue>>

\* C16 as stated: an acquire() whose on-demand creation fails delivers the
\* error to its caller without parking it, leaves creating at its value before
\* the call, and changes neither available, inUse nor the wait queue.
C16_OnDemandFailureUnchanged ==
  [][\A c \in CallerIds :
       /\ OnDemandFailureFrame(c)
       /\ OnDemandStarts(c) => (available' = available \/ callers'[c].popped)
       /\ OnDemandFails(c) => ~callers[c].popped]_vars

\* C16 amended: as above, except that the call removes from available the
\* unusable sessions it popped, and starts their teardown, before it creates.
C16_OnDemandFailure ==
  [][\A c \in CallerIds :
       /\ OnDemandFailureFrame(c)
       /\ OnDemandStarts(c)
          => /\ available' = <<>>
             /\ callers'[c].popped = (available # <<>>)
             /\ \A s \in Range(available) :
                  ~isUsable(s) /\ sessions'[s].closeStarts = sessions[s].closeStarts + 1]_vars

C16_Witness ==
  /\ ~enableWaitQueue
  /\ available = <<>>
  /\ creating = 0
  /\ \E c \in CallerIds :
       callers[c].st = "failed" /\ callers[c].err \in CreateErrors /\ callers[c].popped
  /\ \E s \in SessionIds : sessions[s].st = "live" /\ sessions[s].closeStarts = 1
  /\ \E s \in SessionIds : sessions[s].st = "failed"

\* C17: with size 1 and the wait queue enabled, when the on-demand creation of
\* one caller fails while another caller is parked, the parked caller is
\* rejected with the same error and leaves the queue.
C17_WaiterRejectedOnDemandFailure ==
  [][\A c, w \in CallerIds :
       (size = 1 /\ enableWaitQueue /\ OnDemandFails(c) /\ callers[w].st = "parked")
       => /\ callers'[w].st = "failed"
          /\ callers'[w].err = callers'[c].err
          /\ w \notin Range(waitQueue')]_vars

\* the "disconnected" event of session s fires in this step
DisconnectFires(s) ==
  /\ sessions[s].st = "live" /\ sessions[s].connected /\ ~sessions'[s].connected
  /\ faults' = faults + 1
  /\ td \subseteq td'

\* C18: when the disconnect event fires for a session with a listener, the
\* session leaves whichever of available and inUse held it, its teardown is
\* started, every other session stays where it was, and replenish() is
\* called: a creation is started exactly when the pool is open and below size.
C18_DisconnectHandled ==
  [][\A s \in SessionIds :
       (DisconnectFires(s) /\ sessions[s].listener)
       => /\ s \notin Range(available') \cup inUse'
          /\ available' = SelectSeq(available, LAMBDA x : x # s)
          /\ inUse' = inUse \ {s}
          /\ sessions'[s].closeStarts = sessions[s].closeStarts + 1
          /\ \E t \in td' \ td : t.sid = s
          /\ IF ~closed /\ Len(available') + Cardinality(inUse') + creating < size
             THEN /\ creating' = creating + 1
                  /\ \E t \in cr' \ cr : t.kind = "add" /\ t.phase = "pending"
             ELSE creating' = creating /\ cr' = cr]_vars

C18_Witness ==
  \E s \in SessionIds, c \in CallerIds :
    /\ callers[c].st = "holding" /\ callers[c].sess = s
    /\ sessions[s].listener /\ ~sessions[s].connected
    /\ sessions[s].closeStarts = 1 /\ sessions[s].stops = 0
    /\ s \notin inUse
    /\ ~closed
    /\ \E t \in cr : t.kind = "add"

\* a health sweep starts in this step: replaceSession() is called for the
\* unusable sessions of available
SweepStarts == \E t \in cr' \ cr : t.kind = "replace"

\* the replacement creation t succeeds in this step
ReplacementAdmitted(t) ==
  t \in cr /\ t.kind = "replace" /\ t \notin cr' /\ sessions'[t.sid].st = "live"

\* C19: the steps of a health sweep whose replacement creations succeed never
\* shrink available: the start of the sweep leaves available as it is, and the
\* step that admits a replacement is the one that removes the session it
\* replaces, so available is at least as long after it as before.
C19_ReplacementKeepsAvailable ==
  [][/\ SweepStarts => available' = available
     /\ \A t \in cr :
          ReplacementAdmitted(t)
          => /\ Len(available') >= Len(available)
             /\ available'[Len(available')] = t.sid
             /\ t.arg \notin Range(available')
             /\ \A s \in Range(available) \ {t.arg} : s \in Range(available')]_vars

C19_Witness ==
  \E old, new \in SessionIds :
    /\ Len(available) = 2
    /\ available[2] = new /\ old \notin Range(available)
    /\ sessions[old].closeStarts = 1 /\ sessions[old].stops = 0
    /\ sessions[new].createdAt = 1 /\ sessions[new].useCount = 0
    /\ healthCheckTimer /\ ~isUsable(old) /\ sessions[old].connected
    /\ cr = {} /\ creating = 0 /\ inUse = {} /\ size = 2

\* init() returns in this step
InitReturns == initState = "warming" /\ initState' = "done"

\* the warm-up sessions: init() is the first call made on the pool
WarmupIds == 1..size

\* C20 as stated: once the first warm-up creation has settled init() can
\* return, whatever the other warm-up creations are doing.
C20_InitReturnsAfterFirst ==
  (initState = "warming" /\ \E s \in WarmupIds : \A t \in cr : t.sid # s)
  => ENABLED InitReturn

\* C20 amended: init() returns only when every warm-up creation has settled:
\* each warm-up session was admitted, discarded or failed to be created, and
\* none is still in flight.
C20_InitReturnsAfterAll ==
  [][InitReturns =>
       /\ \A t \in cr : t.sid \notin WarmupIds
       /\ \A s \in WarmupIds : sessions[s].st \in {"live", "failed"}]_vars

C20_Witness ==
  /\ initState = "done"
  /\ size = 3
  /\ Range(available) = WarmupIds
  /\ retries = 0 /\ immediates = 0 /\ faults = 0 /\ now = 0

\* nothing is in flight and no timer callback is pending: the pool does not
\* move again until a caller, the health timer or a connection acts
Settles == Quiescent /\ immediates = 0 /\ retries = 0

\* C21: a replenishment triggered with a positive deficit fills the pool to
\* size. Stated on the run where the one caller's release tears its session
\* down on an empty pool (replenish() is called with deficit = size), every
\* creation succeeds and nobody acts afterwards: once the pool settles,
\* available + inUse = size.
C21_ReplenishFillsToSize ==
  (/\ ~closed /\ initState = "new" /\ faults = 0
   /\ callers[1].st = "released" /\ sessions[callers[1].sess].closeStarts = 1
   /\ \A c \in CallerIds \ {1} : callers[c].st = "idle"
   /\ Settles)
  => Len(available) + Cardinality(inUse) = size

\* C22: with the health monitor enabled and the pool open, at every state with
\* no creation and no teardown in flight, available + inUse + creating <= size.
C22_HealthQuiescentCapacity ==
  (enableHealthCheck /\ ~closed /\ Quiescent)
  => Len(available) + Cardinality(inUse) + creating <= size

\* the creation t completes in this step: createSession() returned a session
Created(t) == t \in cr /\ sessions[t.sid].st = "none" /\ sessions'[t.sid].st = "live"

\* available + inUse + creating as it would stand with the session of t
\* admitted: an on-demand or addSession creation was already counted in
\* creating; a replacement takes the place of the session it replaces
WithAdmitted(t) ==
  IF t.kind = "replace"
  THEN Len(SelectSeq(available, LAMBDA x : x # t.arg)) + 1 + Cardinality(inUse) + creating
  ELSE Len(available) + Cardinality(inUse) + creating

\* C23: a session whose creation completes is closed instead of admitted
\* whenever admitting it would put available + inUse + creating above size;
\* the caller of a discarded on-demand session is then parked, or fails with
\* the exhausted error when the queue is disabled.
C23_RecheckAfterCreate ==
  [][/\ \A t \in cr :
          (Created(t) /\ WithAdmitted(t) > size)
          => /\ t.sid \notin Range(available') \cup inUse'
             /\ sessions'[t.sid].closeStarts = 1
     /\ \A c \in CallerIds :
          (callers[c].st = "closing" /\ callers'[c].st # "closing")
          => IF enableWaitQueue
             THEN callers'[c].st = "parked" /\ waitQueue' = Append(waitQueue, c)
             ELSE callers'[c].st = "failed" /\ callers'[c].err = "Exhausted"]_vars

\* the calls of acquire() and addSession() that incremented the counter and
\* have not yet left: the create call, or the close awaited by addSession()
\* for the session it discards, is still pending
Counted == {t \in cr : t.kind \in {"acquire", "add"}}

\* C24: the creating counter is incremented before each create call made by
\* acquire or addSession and decremented exactly once on every exit path: it
\* always equals the number of such calls still under way, is never negative,
\* and is 0 at every quiescent state.
C24_CreatingBalanced ==
  /\ creating = Cardinality(Counted)
  /\ creating >= 0
  /\ Quiescent => creating = 0

\* a quiescent state after an on-demand creation that succeeded, another that
\* failed, and a background addSession() that ran to its end
C24_Witness ==
  /\ Quiescent /\ creating = 0
  /\ \E c \in CallerIds : callers[c].st = "failed" /\ callers[c].err \in CreateErrors
  /\ \E c \in CallerIds : callers[c].st = "holding"
  /\ \E s \in SessionIds : sessions[s].st = "live" /\ sessions[s].listener

\* C25: in every reachable state the creating counter, which stats() reports,
\* equals the number of session creations under way, whichever path started
\* them: warm-up, replenish, on-demand acquire or health-check replacement.
C25_CreatingCountsAll ==
  /\ creating = Cardinality(cr)
  /\ stats.creating = Cardinality(cr)

\* a health sweep that starts something: no caller, session or timer callback
\* is involved in the step
SweepRuns == cr' # cr /\ UNCHANGED <<callers, sessions, immediates, retries, initState>>

\* what a replenish() call made with the counts av, iu leaves behind
Replenished(av, iu) ==
  LET new == {t \in cr' \ cr : t.kind = "add"}
  IN /\ IF ~closed /\ size - (Len(av) + Cardinality(iu) + creating) > 0
        THEN /\ Cardinality(new) = 1
             /\ \A t \in new : t.phase = "pending" /\ ~t.warm
             /\ creating' = creating + 1
        ELSE new = {} /\ creating' = creating
     /\ UNCHANGED <<available, waitQueue, closed, healthCheckTimer, immediates, retries>>

\* C26: replenish(), called by a release of an unusable session and by every
\* health sweep, starts exactly one creation when the deficit is positive and
\* the pool is open, and otherwise starts none and changes nothing; when that
\* creation fails nothing is thrown to the caller that released.
C26_ReplenishOnce ==
  [][/\ \A c \in CallerIds :
          (Releases(c) /\ (callers'[c].fatal \/ ~isUsable(callers[c].sess)))
          => Replenished(available, inUse \ {callers[c].sess})
     /\ SweepRuns => Replenished(available, inUse)
     /\ \A c \in CallerIds : callers[c].st = "released" => callers'[c] = callers[c]]_vars

\* a sweep found the pool below size after a warm-up creation failed, and
\* replenish() started one creation; no caller has acted
C26_Witness ==
  /\ Cardinality({t \in cr : t.kind = "add" /\ ~t.warm}) = 1
  /\ healthCheckTimer /\ ~closed
  /\ \E s \in SessionIds : sessions[s].st = "failed"
  /\ Len(available) + Cardinality(inUse) + creating = size
  /\ \A c \in CallerIds : callers[c].st = "idle"

\* positions in available of the sessions isUsable() accepts
UsableAt == {i \in 1..Len(available) : isUsable(available[i])}

\* C27: acquire() serves available as a stack: it returns the most recently
\* pushed usable session; every session above it is removed and torn down;
\* the sessions below it stay in available, in order and untouched. With no
\* usable session every session is removed and torn down.
C27_StackOrder ==
  [][\A c \in CallerIds :
       Calls(c)
       => LET top == IF UsableAt = {} THEN 0
                     ELSE CHOOSE i \in UsableAt : \A j \in UsableAt : j <= i
          IN /\ available' = SubSeq(available, 1, top - 1)
             /\ \A j \in (top + 1)..Len(available) :
                  /\ sessions'[available[j]].closeStarts = sessions[available[j]].closeStarts + 1
                  /\ \E t \in td' \ td : t.sid = available[j]
                  /\ available[j] \notin inUse'
             /\ \A j \in 1..(top - 1) : sessions'[available[j]] = sessions[available[j]]
             /\ top > 0 => /\ callers'[c].st = "holding"
                           /\ callers'[c].sess = available[top]
                           /\ available[top] \in inUse'
             /\ top = 0 => callers'[c].st # "holding"]_vars

\* an acquire() removed an unusable session from the top of available and
\* accepted the usable one under it
C27_Witness ==
  /\ ~closed
  /\ \E c \in CallerIds :
       /\ callers[c].st = "holding" /\ callers[c].hit /\ callers[c].popped
       /\ callers[c].sess \in inUse

\* C28: an acquire() that accepts a session from available sets the
\* session's lastUsedAt to the current time.
C28_AcquireTouches ==
  [][\A c \in CallerIds :
       (Calls(c) /\ callers'[c].st = "holding")
       => sessions'[callers'[c].sess].lastUsedAt = now]_vars

\* C29: with disconnect handling enabled and browsers that have an on()
\* method, every session the pool creates has a disconnect listener attached,
\* whichever path created it.
C29_ListenerOnEverySession ==
  \A s \in SessionIds :
    (enableDisconnectHandling /\ env.on /\ sessions[s].st = "live") => sessions[s].listener

\* the caller holding s hands it back
ReleasedByHolder(s) ==
  \E c \in CallerIds : Releases(c) /\ callers[c].sess = s

\* C30: while the pool is open (in every step other than those of a
\* shutdown() and those taken once closed), a session in inUse leaves inUse,
\* or has a teardown started, only in a release() by its holder or in the
\* disconnect handler: sweeps, replacements, replenish, background creation
\* and other callers' acquire leave it alone.
C30_InUseLeftAlone ==
  [][\A s \in inUse :
       (/\ ~closed'
        /\ \/ s \notin inUse'
           \/ sessions'[s].closeStarts # sessions[s].closeStarts)
       => (ReleasedByHolder(s) \/ DisconnectFires(s))]_vars

\* a sweep ran while a caller held a session that isUsable() rejects: the
\* sweep replaces a session of available and the held one is still in inUse,
\* with no teardown started
C30_Witness ==
  /\ ~closed /\ healthCheckTimer
  /\ \E t \in cr : t.kind = "replace"
  /\ \E c \in CallerIds :
       /\ callers[c].st = "holding"
       /\ callers[c].sess \in inUse
       /\ ~isUsable(callers[c].sess)
       /\ sessions[callers[c].sess].closeStarts = 0

\* the createSession() awaited by the replacement t throws in this step
ReplacementFails(t) ==
  t \in cr /\ t.kind = "replace" /\ sessions[t.sid].st = "none" /\ sessions'[t.sid].st = "failed"

\* C31: when the replacement creation for an unusable session of available
\* fails, the old session is removed from available and its teardown started
\* if it is still there, nothing is added in its place, no caller is touched,
\* and no creation is started: the deficit is left to a later replenish().
C31_ReplacementFailure ==
  [][\A t \in cr :
       ReplacementFails(t)
       => /\ available' = SelectSeq(available, LAMBDA x : x # t.arg)
          /\ IF t.arg \in Range(available)
             THEN /\ sessions'[t.arg].closeStarts = sessions[t.arg].closeStarts + 1
                  /\ \E d \in td' \ td : d.sid = t.arg
             ELSE sessions'[t.arg] = sessions[t.arg] /\ td' = td
          /\ cr' = cr \ {t}
          /\ UNCHANGED <<inUse, creating, waitQueue, callers, immediates, retries, closed>>]_vars

\* the replacement of the only session of a pool of size 1 failed with no
\* caller around: the old session is out of available with its teardown
\* started, and nothing stands in its place
C31_Witness ==
  /\ size = 1 /\ healthCheckTimer /\ ~closed
  /\ sessions[1].st = "live" /\ sessions[1].closeStarts = 1
  /\ sessions[2].st = "failed"
  /\ available = <<>> /\ inUse = {} /\ cr = {}
  /\ \A c \in CallerIds : callers[c].st = "idle"

\* the createSession() of t throws in this step after provisioning succeeded
\* and connecting failed
ConnectFails(t) ==
  /\ t \in cr /\ sessions[t.sid].st = "none" /\ sessions'[t.sid].st = "failed"
  /\ sessions'[t.sid].fault \in {"ConnErr", "ConnErrStopErr"}

\* C32: when provisioning succeeds and connecting fails, the stop call for
\* the provisioned session has been issued by the time the failure reaches
\* the caller, and the caller that receives the failure receives the
\* connection error, also when the stop call itself failed.
C32_StopBeforeRethrow ==
  [][\A t \in cr :
       ConnectFails(t)
       => /\ sessions'[t.sid].provisioned /\ sessions'[t.sid].stops = 1
          /\ \A c \in CallerIds :
               (callers[c].st # "failed" /\ callers'[c].st = "failed")
               => callers'[c].err = "ConnErr"
          /\ t.kind = "acquire" => callers'[t.arg].st = "failed"]_vars

\* an on-demand creation failed at connect and the stop call failed too: the
\* stop call was issued and the caller holds the connection error
C32_Witness ==
  \E s \in SessionIds, c \in CallerIds :
    /\ sessions[s].st = "failed" /\ sessions[s].fault = "ConnErrStopErr"
    /\ sessions[s].provisioned
    /\ sessions[s].stops = 1 /\ sessions[s].stopFailed
    /\ callers[c].st = "failed" /\ callers[c].err = "ConnErr"
    /\ waitQueue = <<>> /\ ~enableWaitQueue

\* the teardown t ends in this step: its closeSession() call returns
Ends(t) == t \in td /\ ~\E x \in td' : x.sid = t.sid /\ x.n = t.n

\* C33: closeSession() never propagates an error and always runs both steps:
\* when browser.close() settles, failed or not, the teardown goes on to its
\* stop call; every teardown that ends has had its stop call settle, and the
\* code awaiting it carries on as after a clean teardown (an acquire() falls
\* through to the queue or the exhausted error); closeSession() of no
\* session issues no call.
C33_TeardownCompletes ==
  [][/\ \A t \in td :
          /\ (t.phase = "close" /\ t \notin td')
             => /\ [t EXCEPT !.phase = "stop"] \in td'
                /\ sessions'[t.sid].stops = sessions[t.sid].stops
                /\ callers' = callers
          /\ Ends(t)
             => /\ t.phase = "stop"
                /\ sessions'[t.sid].stops = sessions[t.sid].stops + 1
                /\ t.owner.k = "acq"
                   => /\ callers'[t.owner.i].st \in {"parked", "failed"}
                      /\ callers'[t.owner.i].st = "failed"
                         => callers'[t.owner.i].err = "Exhausted"
                /\ \A c \in CallerIds :
                     (callers[c].st # "failed" /\ callers'[c].st = "failed")
                     => c = t.owner.i /\ t.owner.k = "acq"
     /\ closeSession({0}, BG) = {}
     /\ Closing(sessions, {0}) = sessions]_vars

\* a teardown whose browser.close() failed has ended with its stop call made
C33_Witness ==
  \E s \in SessionIds :
    /\ sessions[s].st = "live" /\ sessions[s].closeFailed
    /\ sessions[s].closeStarts = 1 /\ sessions[s].stops = 1
    /\ \A t \in td : t.sid # s

\* the createSession() awaited by the addSession() call t throws in this step
AddFails(t) ==
  t \in cr /\ t.kind = "add" /\ sessions[t.sid].st = "none" /\ sessions'[t.sid].st = "failed"

\* C34: when the creation of an addSession() fails while the pool is open
\* and available + inUse + the other creations in flight is below size, one
\* retry is scheduled, for every deficit of at least one.
C34_RetryOnDeficit ==
  [][\A t \in cr :
       (/\ AddFails(t)
        /\ ~closed
        /\ Len(available) + Cardinality(inUse) + (creating - 1) < size)
       => retries' = retries + 1]_vars

\* C35: when the creation of an addSession() fails and the wait queue is
\* non-empty, the head of the queue, and no other caller, is removed and
\* rejected with the creation error; the other waiters stay queued in their
\* order, and available and inUse are unchanged.
C35_HeadWaiterRejected ==
  [][\A t \in cr :
       (AddFails(t) /\ Len(waitQueue) > 0)
       => LET w == Head(waitQueue)
          IN /\ waitQueue' = Tail(waitQueue)
             /\ callers'[w].st = "failed"
             /\ callers'[w].err \in CreateErrors
             /\ callers'[w].err = "ConnErr" <=> sessions'[t.sid].stops = 1
             /\ callers'[w].err = "ProvErr" <=> ~sessions'[t.sid].provisioned
             /\ \A c \in CallerIds \ {w} : callers'[c] = callers[c]
             /\ available' = available /\ inUse' = inUse]_vars

\* the replenishing addSession() started by a fatal release failed with two
\* callers parked: the first is rejected, the second is still queued
C35_Witness ==
  /\ size = 1 /\ ~closed
  /\ callers[1].st = "released" /\ callers[1].fatal
  /\ callers[2].st = "failed" /\ callers[2].err \in CreateErrors
  /\ callers[3].st = "parked" /\ waitQueue = <<3>>
  /\ \E s \in SessionIds : sessions[s].st = "failed"

\* C36: whenever the wait queue is non-empty, available is empty.
C36_NoWaiterBesideIdleSession ==
  Len(waitQueue) > 0 => available = <<>>

\* C37: no parked caller is stranded: on an open pool, at every state with
\* nothing in flight and no background creation scheduled, a non-empty wait
\* queue comes with at least one session in inUse, whose release can serve
\* the head waiter.
C37_WaiterHasHolder ==
  (~closed /\ Settles /\ Len(waitQueue) > 0) => inUse # {}

\* C38: no session is handed out more than maxUses times: in every reachable
\* state every session has useCount <= maxUses.
C38_UseCountBounded ==
  \A s \in SessionIds : sessions[s].useCount <= maxUses

\* a session has been handed out maxUses = 2 times and is held
C38_Witness ==
  /\ maxUses = 2
  /\ \E s \in inUse, c \in CallerIds :
       /\ sessions[s].useCount = 2
       /\ callers[c].st = "holding" /\ callers[c].sess = s

\* every remote session that was provisioned is in available or inUse, or
\* has had a stop call issued
NoLeak ==
  \A s \in SessionIds :
    sessions[s].provisioned
    => (s \in Range(available) \cup inUse \/ sessions[s].stops >= 1)

\* every shutdown() call made has returned, and at least one was made
ShutdownReturned ==
  /\ \E k \in ShutdownIds : sd[k].st = "returned"
  /\ \A k \in ShutdownIds : sd[k].st \in {"idle", "returned"}

\* C39: no session leaks: at every quiescent state each provisioned session
\* is reachable from available or inUse or has had its stop call issued;
\* once shutdown() has returned and every creation, teardown, scheduled
\* callback and release has settled, available and inUse are empty and every
\* provisioned session has had its stop call issued.
C39_NoSessionLeak ==
  /\ Quiescent => NoLeak
  /\ (/\ ShutdownReturned /\ Settles
      /\ \A c \in CallerIds : callers[c].st \in {"idle", "released", "failed"})
     => /\ available = <<>> /\ inUse = {}
        /\ \A s \in SessionIds : sessions[s].provisioned => sessions[s].stops >= 1

\* C40: time spent in use does not count as idle time: a connected session
\* released without the fatal flag, with useCount below maxUses and age
\* within maxAgeMs, goes back to available or to the head waiter, however
\* long it was held.
C40_HeldTimeNotIdle ==
  [][\A c \in CallerIds :
       LET s == callers[c].sess
       IN (/\ Releases(c) /\ ~callers'[c].fatal
           /\ sessions[s].connected
           /\ sessions[s].useCount < maxUses
           /\ ~(now - sessions[s].createdAt > maxAgeMs))
          => /\ sessions'[s].closeStarts = sessions[s].closeStarts
             /\ \/ s \in Range(available')
                \/ \E d \in CallerIds : HandedOver(d) /\ callers'[d].sess = s]_vars

====
